---- MODULE Spec2Model ----
\* A model of src/src/mipmap.rs: MipMap1D<T>, the pyramid of pairwise-averaged
\* levels of a vector, with T instantiated as a signed two's-complement integer
\* of Width bits (the tests instantiate it with integer literals).
EXTENDS Integers, Sequences, FiniteSets, TLC

\* ------------------------------------------------------------------ bounds

\* Bit width of the integer type T.
Width == 5

\* Longest enumerated source vector.
MaxLen == 4

\* Largest level index passed to get_level.
MaxIndex == 5

\* ------------------------------------------------------------ the type T

RECURSIVE Pow2(_)
Pow2(k) == IF k = 0 THEN 1 ELSE 2 * Pow2(k - 1)

Modulus == Pow2(Width)

TMin == -Pow2(Width - 1)

TMax == Pow2(Width - 1) - 1

InT(x) == TMin <= x /\ x <= TMax

\* Two's-complement wrap of a mathematical integer into T.
WrapT(x) == ((x - TMin) % Modulus) + TMin

\* Element values the enumerated sources are built from: both ends of T and
\* small values of both signs, so that odd, negative and overflowing sums occur.
Vals == {TMin, -2, -1, 1, 2, TMax}

\* The vectors of the repository's tests and doc example.
TestVectors == {<<2, 4, 6, 8>>, <<2, 4, 6, 8, 9>>}

RECURSIVE SeqsUpTo(_, _)
SeqsUpTo(S, n) ==
    IF n = 0 THEN {<<>>}
    ELSE LET shorter == SeqsUpTo(S, n - 1)
         IN  shorter \cup {Append(s, v) : s \in {t \in shorter : Len(t) = n - 1}, v \in S}

Sources == SeqsUpTo(Vals, MaxLen) \cup TestVectors

\* ------------------------------------------------------ Option and results

NoneT == [some |-> FALSE, v |-> 0]

SomeT(x) == [some |-> TRUE, v |-> x]

\* The outcome of an expression that may panic.
Panic == [panic |-> TRUE, v |-> 0]

Ok(x) == [panic |-> FALSE, v |-> x]

\* Option::unwrap: panics on None.
Unwrap(o) == IF o.some THEN Ok(o.v) ELSE Panic

\* ------------------------------------------------- arithmetic of line 60

\* pair[0] + pair[1] in T. With overflow checks (debug profile) an
\* out-of-range sum panics; without them (release profile) it wraps.
AddT(a, b, checks) ==
    IF InT(a + b) THEN Ok(a + b)
    ELSE IF checks THEN Panic
    ELSE Ok(WrapT(a + b))

\* An f64 value, as an exact rational num/den with den > 0 (every value that
\* arises here is an integer of at most Width bits, or half of one).
ToF64(x) == SomeT([num |-> x, den |-> 1])

\* f / 2.0
F64Div2(f) == [num |-> f.num, den |-> f.den * 2]

\* Integer quotient rounded toward zero (the float-to-int cast).
TruncDiv(n, d) == IF n >= 0 THEN n \div d ELSE -((-n) \div d)

\* A from_f64 that rounds down (toward minus infinity) instead of toward zero.
FromF64_floor(f) ==
    LET t == f.num \div f.den
    IN  IF InT(t) THEN SomeT(t) ELSE NoneT

\* T::from_f64 for an integer T: None when the value is outside
\* (MIN - 1, MAX + 1), otherwise the value with its fraction discarded.
FromF64(f) ==
    LET t == TruncDiv(f.num, f.den)
    IN  IF InT(t) THEN SomeT(t) ELSE NoneT

\* T::from_f64((pair[0] + pair[1]).to_f64().unwrap() / 2.0).unwrap()
Average(a, b, checks) ==
    LET sum == AddT(a, b, checks)
    IN  IF sum.panic THEN Panic
        ELSE LET f == Unwrap(ToF64(sum.v))
             IN  IF f.panic THEN Panic
                 ELSE Unwrap(FromF64(F64Div2(f.v)))

\* ------------------------------------------------------------ downsample

CeilDiv(n, d) == (n + d - 1) \div d

MinOf(a, b) == IF a <= b THEN a ELSE b

\* slice.windows(n) in place of slice.chunks(n): overlapping windows.
Chunks_windows(s, n) ==
    [i \in 1..(Len(s) - n + 1) |-> SubSeq(s, i, i + n - 1)]

\* slice.chunks(n): consecutive chunks of n elements, the last one shorter
\* when n does not divide the length; no chunk for an empty slice.
Chunks(s, n) ==
    [i \in 1..CeilDiv(Len(s), n) |-> SubSeq(s, n * (i - 1) + 1, MinOf(n * i, Len(s)))]

\* A closure that averages a lone trailing element with a missing (zero)
\* partner instead of passing it through.
MapPair_halveLone(pair, checks) ==
    CASE Len(pair) = 1 -> Average(pair[1], 0, checks)
      [] Len(pair) = 2 -> Average(pair[1], pair[2], checks)
      [] OTHER -> Panic

\* The closure mapped over the chunks.
MapPair(pair, checks) ==
    CASE Len(pair) = 1 -> Ok(pair[1])
      [] Len(pair) = 2 -> Average(pair[1], pair[2], checks)
      [] OTHER -> Panic

downsample(src, checks) ==
    LET cs == Chunks(src, 2)
        out == [i \in DOMAIN cs |-> MapPair(cs[i], checks)]
    IN  IF \E i \in DOMAIN cs : out[i].panic THEN Panic
        ELSE Ok([i \in DOMAIN cs |-> out[i].v])

\* ------------------------------------------------------------- queries

num_levels(d) == Len(d)

RetNone == [kind |-> "None", level |-> <<>>, n |-> 0]

RetSome(l) == [kind |-> "Some", level |-> l, n |-> 0]

RetUsize(k) == [kind |-> "usize", level |-> <<>>, n |-> k]

RetFault == [kind |-> "fault", level |-> <<>>, n |-> 0]

\* self.data[level]: an index past the end is an out-of-bounds panic.
IndexData(d, level) == IF level + 1 \in DOMAIN d THEN RetSome(d[level + 1]) ELSE RetFault

\* The bound check written with > instead of >=.
get_level_gt(d, level) ==
    IF level > num_levels(d) THEN RetNone ELSE IndexData(d, level)

get_level(d, level) ==
    IF level >= num_levels(d) THEN RetNone ELSE IndexData(d, level)

\* -------------------------------------------------------------- state

VARIABLES
    source,     \* the argument of MipMap1D::new
    checks,     \* whether the build checks integer overflow
    pc,         \* "new", "loop", "done" (new returned) or "fault" (new panicked)
    data,       \* the levels pushed so far
    current,    \* the local `current` of new
    calls,      \* the lengths of the slices passed to downsample, in order
    query       \* the last query made of the built pyramid and what it returned

vars == <<source, checks, pc, data, current, calls, query>>

NoQuery == [op |-> "none", arg |-> 0, ret |-> RetNone]

Init ==
    /\ source \in Sources
    /\ checks \in BOOLEAN
    /\ pc = "new"
    /\ data = <<>>
    /\ current = <<>>
    /\ calls = <<>>
    /\ query = NoQuery

\* Loop guards that are off by one, or that only exclude length 1.
LoopCond_gt2(cur) == Len(cur) > 2

LoopCond_ge1(cur) == Len(cur) >= 1

LoopCond_ne1(cur) == Len(cur) # 1

\* The guard of the while loop of new.
LoopCond(cur) == Len(cur) > 1

\* let mut data = vec![source.clone()]; let mut current = source;
NewBegin ==
    /\ pc = "new"
    /\ data' = <<source>>
    /\ current' = source
    /\ pc' = "loop"
    /\ UNCHANGED <<source, checks, calls, query>>

\* One iteration of the loop: downsample, clone_from, push.
LoopStep ==
    /\ pc = "loop"
    /\ LoopCond(current)
    /\ calls' = Append(calls, Len(current))
    /\ LET mipmap == downsample(current, checks)
       IN  IF mipmap.panic
           THEN /\ pc' = "fault"
                /\ UNCHANGED <<data, current>>
           ELSE /\ current' = mipmap.v
                /\ data' = Append(data, mipmap.v)
                /\ pc' = "loop"
    /\ UNCHANGED <<source, checks, query>>

\* The loop guard fails: Self { data } is returned.
LoopExit ==
    /\ pc = "loop"
    /\ ~LoopCond(current)
    /\ pc' = "done"
    /\ UNCHANGED <<source, checks, data, current, calls, query>>

NumLevels ==
    /\ pc = "done"
    /\ query' = [op |-> "num_levels", arg |-> 0, ret |-> RetUsize(num_levels(data))]
    /\ UNCHANGED <<source, checks, pc, data, current, calls>>

GetLevel ==
    /\ pc = "done"
    /\ \E level \in 0..MaxIndex :
          query' = [op |-> "get_level", arg |-> level, ret |-> get_level(data, level)]
    /\ UNCHANGED <<source, checks, pc, data, current, calls>>

Next == NewBegin \/ LoopStep \/ LoopExit \/ NumLevels \/ GetLevel

Spec == Init /\ [][Next]_vars

\* Sources for the runs that follow new to its end: longer vectors over fewer
\* values (a value whose pairs average in range and one whose pairs overflow).
LongSources == SeqsUpTo({1, TMax}, MaxLen + 2)

LongInit ==
    /\ source \in LongSources
    /\ checks \in BOOLEAN
    /\ pc = "new"
    /\ data = <<>>
    /\ current = <<>>
    /\ calls = <<>>
    /\ query = NoQuery

\* new is straight-line sequential code: a step that can run does run.
FairSpec == LongInit /\ [][Next]_vars /\ WF_vars(NewBegin \/ LoopStep \/ LoopExit)

\* ------------------------------------------------- reference notions

\* ceil(n / 2)
HalfUp(n) == (n + 1) \div 2

\* ceil(log2(n)) for n >= 1: the least k with 2^k >= n.
CeilLog2(n) == CHOOSE k \in 0..n : Pow2(k) >= n /\ \A m \in 0..(k - 1) : Pow2(m) < n

\* s / 2 with the fraction discarded: the integer q nearest to zero of those
\* within 1/2 of s / 2.
HalfTowardZero(s) ==
    CHOOSE q \in -Modulus..Modulus :
        IF s >= 0 THEN 2 * q <= s /\ s < 2 * q + 2
        ELSE 2 * q >= s /\ s > 2 * q - 2

Abs(x) == IF x >= 0 THEN x ELSE -x

RECURSIVE TotalLen(_)
TotalLen(d) == IF d = <<>> THEN 0 ELSE Len(Head(d)) + TotalLen(Tail(d))

LastLevel == data[Len(data)]

\* Every pair (a, b) of neighbours 2j-1, 2j of a stored level together with
\* the element o stored at position j of the next level.
AveragedPairs ==
    UNION {{[a |-> data[k - 1][2 * j - 1], b |-> data[k - 1][2 * j], o |-> data[k][j]] :
                j \in {i \in 1..Len(data[k]) : 2 * i <= Len(data[k - 1])}} :
            k \in 2..Len(data)}

C2_NumLevels ==
    (query.op = "num_levels" /\ source # <<>>) =>
        query.ret = RetUsize(CeilLog2(Len(source)) + 1)

C2_Witness ==
    /\ query.op = "num_levels"
    /\ Len(source) = 3
    /\ query.ret.n = 3

\* ----------------------------------------------------------------- C3
\* C3: get_level(i) returns the stored level i when i < num_levels() and
\* None when i >= num_levels(); it never faults.
C3_GetLevel ==
    query.op = "get_level" =>
        IF query.arg < Len(data)
        THEN query.ret = RetSome(data[query.arg + 1])
        ELSE query.ret = RetNone

C3_Witness ==
    /\ query.op = "get_level"
    /\ query.arg = Len(data)
    /\ query.ret = RetNone

\* ----------------------------------------------------------------- C4
\* C4 as stated: once new has returned, the last level has length exactly 1,
\* whatever the source.
C4_LastLevelLenOne == pc = "done" => Len(LastLevel) = 1

\* C4 as amended: once new has returned, the last level has length exactly 1
\* when the source is non-empty, and length 0 when the source is empty.
C4_LastLevelLen ==
    pc = "done" => Len(LastLevel) = (IF source = <<>> THEN 0 ELSE 1)

C4_Witness ==
    /\ pc = "done"
    /\ Len(source) = 3
    /\ Len(data) = 3
    /\ Len(LastLevel) = 1

C6_NoWrappedAverage ==
    pc = "done" => \A p \in AveragedPairs : InT(p.a + p.b)

\* ----------------------------------------------------------------- C7
\* C7: for a non-empty source of length N, num_levels() returns
\* ceil(log2(N)), as its doc comment says.
C7_NumLevelsDoc ==
    (query.op = "num_levels" /\ source # <<>>) =>
        query.ret.n = CeilLog2(Len(source))

C9_NoEmptyDownsample ==
    /\ \A i \in DOMAIN calls : calls[i] > 0
    /\ (source = <<>> => calls = <<>>)
    /\ ((pc = "done" /\ source = <<>>) => data = <<<<>>>>)

C9_Witness ==
    /\ pc = "done"
    /\ source = <<>>
    /\ calls = <<>>
    /\ data = <<<<>>>>

\* ---------------------------------------------------------------- C10
\* C10: new eventually returns or faults: every iteration that appends a
\* level appends one strictly shorter than the level it came from, the loop
\* is left as soon as the latest level has length <= 1, and the construction
\* reaches "done" or "fault".
C10_Terminates ==
    /\ [][(pc = "loop" /\ pc' = "loop") =>
            (Len(current') < Len(current) /\ Len(current) > 1)]_vars
    /\ [][(pc = "loop" /\ Len(current) <= 1) => pc' = "done"]_vars
    /\ <>(pc \in {"done", "fault"})

C10_Witness ==
    /\ pc = "done"
    /\ Len(calls) = 2
    /\ Len(data) = 3

====
